---- MODULE Spec2Model ----
(***************************************************************************)
(* The scripted chat models of the examples: FakeChatModel                 *)
(* (examples/simple_demo.py) and MockChatModel                             *)
(* (examples/demo_supervisor.py).  Each instance replays a fixed list of   *)
(* responses, one per _generate call, through a cursor (idx /              *)
(* current_index).  With them: the FitnessAIConfig dataclass              *)
(* (fitness_ai/config.py), the entry points of fitness_ai/core.py, and     *)
(* the demo programs of examples/ that run a supervisor workflow on the    *)
(* scripted models.                                                        *)
(***************************************************************************)
EXTENDS Integers, Sequences, FiniteSets, TLC

(* ------------------------------------------------------------------ *)
(* Bounds of the model                                                 *)
(* ------------------------------------------------------------------ *)

\* longest response script a constructor is given (at most Len(Texts))
MaxLen == 3

\* _generate calls made in one run: enough to exhaust the longest script and
\* to call once more after that
MaxCalls == MaxLen + 1

\* the inputs an interactive session reads at most, and the direct calls
\* of create_fitness_ai_system made before a session at most
MaxInputs == 2
MaxCreates == 1

\* the names the program holds model instances under: one model, or two
OneInstance == {"A"}
TwoInstances == {"A", "B"}

(* ------------------------------------------------------------------ *)
(* Values                                                              *)
(* ------------------------------------------------------------------ *)

\* MockChatModel's literal for a call made with no response left
FallbackText == "I don't have more responses configured."

\* response texts a script is made of
Texts == <<"R0", "R1", "R2", "R3", "R4", "R5">>

\* AIMessage(content=c)
AIMessage(c) == [type |-> "ai", content |-> c]

\* the scripts of texts: the first n texts for every n up to MaxLen (the
\* empty script included), and a one-text script of its own
TextScripts == {SubSeq(Texts, 1, n) : n \in 0..MaxLen} \cup {<<"Z">>}

\* MockChatModel takes list[str]: any texts, the fallback literal included
MockScripts == TextScripts \cup {<<FallbackText>>}

\* FakeChatModel takes Sequence[BaseMessage]
FakeScripts == {[k \in 1..Len(s) |-> AIMessage(s[k])] : s \in TextScripts}

\* values given for the idx field when FakeChatModel is constructed; 0 is
\* the field's default, -1 subscripts the last response
IdxArgs == {-1, 0, 1}

\* conversation histories, stop lists and tool collections passed by callers
Histories == {<<>>, <<"H1">>}
StopLists == {<<>>, <<"STOP">>}
BaseToolAdd == [isBaseTool |-> TRUE, name |-> "add", str |-> "StructuredTool(name='add')"]
PlainCallable == [isBaseTool |-> FALSE, name |-> "", str |-> "<function web_search>"]
ToolLists == {<<>>, <<BaseToolAdd, PlainCallable>>}

NoKwargs == {}

(* ------------------------------------------------------------------ *)
(* Python list subscript: seq[i] with negative indices from the end,   *)
(* IndexError outside -len..len-1                                      *)
(* ------------------------------------------------------------------ *)
InRange(seq, i) == -Len(seq) <= i /\ i < Len(seq)

GetItem(seq, i) == IF i >= 0 THEN seq[i + 1] ELSE seq[Len(seq) + i + 1]

(* ------------------------------------------------------------------ *)
(* Outcome of one _generate call: the object after the call, the       *)
(* exception raised ("" when it returns), the generations of the       *)
(* ChatResult, and the positions of self.responses the call read       *)
(* ------------------------------------------------------------------ *)
Outcome(self, raised, generations, reads) ==
    [self |-> self, raised |-> raised, generations |-> generations, reads |-> reads]

(* Faulty variants of the two _generate methods, which the properties     *)
(* below must tell from the methods themselves.                           *)

\* wraps around at the end of the script instead of raising
FakeChatModel_generate_wrapping(self, messages, stop, kwargs) ==
    IF Len(self.responses) > 0
    THEN Outcome([self EXCEPT !.idx = self.idx + 1], "",
                 <<GetItem(self.responses, self.idx % Len(self.responses))>>,
                 <<self.idx % Len(self.responses)>>)
    ELSE Outcome(self, "IndexError", <<>>, <<>>)

\* answers with a placeholder at the end of the script instead of raising
FakeChatModel_generate_placeholder(self, messages, stop, kwargs) ==
    IF InRange(self.responses, self.idx)
    THEN Outcome([self EXCEPT !.idx = self.idx + 1], "",
                 <<GetItem(self.responses, self.idx)>>, <<self.idx>>)
    ELSE Outcome(self, "", <<AIMessage(FallbackText)>>, <<>>)

\* picks the response by the length of the history instead of the cursor
MockChatModel_generate_by_history(self, messages, stop, kwargs) ==
    IF Len(messages) < Len(self.responses)
    THEN Outcome([self EXCEPT !.current_index = self.current_index + 1], "",
                 <<AIMessage(GetItem(self.responses, Len(messages)))>>,
                 <<Len(messages)>>)
    ELSE Outcome(self, "", <<AIMessage(FallbackText)>>, <<>>)

\* advances the cursor on the fallback branch too
MockChatModel_generate_advancing(self, messages, stop, kwargs) ==
    IF self.current_index < Len(self.responses)
    THEN Outcome([self EXCEPT !.current_index = self.current_index + 1], "",
                 <<AIMessage(GetItem(self.responses, self.current_index))>>,
                 <<self.current_index>>)
    ELSE Outcome([self EXCEPT !.current_index = self.current_index + 1], "",
                 <<AIMessage(FallbackText)>>, <<>>)

\* takes the response out of the list instead of moving a cursor over it
FakeChatModel_generate_popping(self, messages, stop, kwargs) ==
    IF Len(self.responses) > 0
    THEN Outcome([self EXCEPT !.responses = Tail(self.responses)], "",
                 <<Head(self.responses)>>, <<0>>)
    ELSE Outcome(self, "IndexError", <<>>, <<>>)

\* FakeChatModel._generate: responses[idx] is read first; when the
\* subscript raises, idx += 1 is not reached
FakeChatModel_generate(self, messages, stop, kwargs) ==
    IF InRange(self.responses, self.idx)
    THEN Outcome([self EXCEPT !.idx = self.idx + 1], "",
                 <<GetItem(self.responses, self.idx)>>, <<self.idx>>)
    ELSE Outcome(self, "IndexError", <<>>, <<>>)

\* MockChatModel._generate
MockChatModel_generate(self, messages, stop, kwargs) ==
    IF self.current_index < Len(self.responses)
    THEN Outcome([self EXCEPT !.current_index = self.current_index + 1], "",
                 <<AIMessage(GetItem(self.responses, self.current_index))>>,
                 <<self.current_index>>)
    ELSE Outcome(self, "", <<AIMessage(FallbackText)>>, <<>>)

_generate(self, messages, stop, kwargs) ==
    IF self.cls = "FakeChatModel"
    THEN FakeChatModel_generate(self, messages, stop, kwargs)
    ELSE MockChatModel_generate(self, messages, stop, kwargs)

\* the cursor field of an instance
Cursor(self) ==
    IF self.cls = "FakeChatModel" THEN self.idx ELSE self.current_index

\* the instance with its cursor field set to c
WithCursor(self, c) ==
    IF self.cls = "FakeChatModel"
    THEN [self EXCEPT !.idx = c]
    ELSE [self EXCEPT !.current_index = c]

\* faulty variant: the cursor kept as one attribute of the class, so that the
\* store reaches every instance of it
StoreSelf_class_attribute(heap, target, self) ==
    [b \in DOMAIN heap |->
        IF b = target THEN self
        ELSE IF heap[b].cls = self.cls THEN WithCursor(heap[b], Cursor(self))
        ELSE heap[b]]

\* self.idx += 1 / self.current_index += 1 store into the instance called:
\* the cursor is a field of the instance, so no other object changes
StoreSelf(heap, target, self) == [heap EXCEPT ![target] = self]

(* ------------------------------------------------------------------ *)
(* Construction                                                        *)
(* ------------------------------------------------------------------ *)

\* FakeChatModel(responses=..., idx=...): both are pydantic fields
FakeChatModel_init(responses, idx) ==
    [cls |-> "FakeChatModel", responses |-> responses, idx |-> idx]

\* faulty variant: the cursor is not put back to 0
MockChatModel_init_no_reset(responses) ==
    [cls |-> "MockChatModel", responses |-> responses, current_index |-> 1]

\* MockChatModel(responses): __init__ passes current_index=0 itself
MockChatModel_init(responses) ==
    [cls |-> "MockChatModel", responses |-> responses, current_index |-> 0]

(* ------------------------------------------------------------------ *)
(* bind_tools                                                          *)
(* ------------------------------------------------------------------ *)

\* a reference through which a model is invoked: the address of the model
\* object it calls and the keyword arguments it adds to each call
Ref(target, kwargs) == [target |-> target, kwargs |-> kwargs]

SelfRef(a) == Ref(a, NoKwargs)

\* the tool_dicts list comprehension of FakeChatModel.bind_tools
ToolDicts(tools) ==
    [k \in 1..Len(tools) |->
        [name |-> IF tools[k].isBaseTool THEN tools[k].name ELSE tools[k].str]]

\* faulty variant: binding tools starts the script again
FakeChatModel_bind_tools_resetting(heap, a, tools) ==
    [heap |-> [heap EXCEPT ![a].idx = 0],
     ret |-> Ref(a, {<<"tools", ToolDicts(tools)>>})]

\* faulty variant: the handle is bound to a copy of the model, with a cursor
\* of its own
FakeChatModel_bind_tools_copy(heap, a, tools) ==
    [heap |-> ("copy" :> heap[a]) @@ heap,
     ret |-> Ref("copy", {<<"tools", ToolDicts(tools)>>})]

\* FakeChatModel.bind_tools: self.bind(tools=tool_dicts), a binding whose
\* bound object is self; the heap is left as it is
FakeChatModel_bind_tools(heap, a, tools) ==
    [heap |-> heap, ret |-> Ref(a, {<<"tools", ToolDicts(tools)>>})]

\* MockChatModel.bind_tools: return self
MockChatModel_bind_tools(heap, a, tools) ==
    [heap |-> heap, ret |-> SelfRef(a)]

bind_tools(heap, a, tools) ==
    IF heap[a].cls = "FakeChatModel"
    THEN FakeChatModel_bind_tools(heap, a, tools)
    ELSE MockChatModel_bind_tools(heap, a, tools)

(* ------------------------------------------------------------------ *)
(* State                                                               *)
(* ------------------------------------------------------------------ *)
VARIABLES
    objs,      \* the heap: address -> model object, for the objects constructed
    ctor,      \* address -> the arguments its constructor was given
    out,       \* address -> results of the calls made on that model, in order,
               \*   directly or through a handle bind_tools returned for it
    order,     \* the models called, in the order of the calls
    returned,  \* the handles bind_tools has returned: [model, ret]
    used,      \* the references _generate has been called through
    last,      \* the operation done last
    thr,       \* thread -> where it is in its _generate call, and its locals
    configs,   \* address -> FitnessAIConfig object, for the objects constructed
    shown,     \* address -> what validate, to_dict and __repr__ gave for it
    session,   \* the run of one function of fitness_ai/core.py
    demo       \* the run of one demo program of examples/

\* the scripted models and their callers
modelVars == <<objs, ctor, out, order, returned, used, last, thr>>

\* the state of the fitness_ai package and of the demo programs
appVars == <<configs, shown, session, demo>>

vars == <<objs, ctor, out, order, returned, used, last, thr, appVars>>

\* no configuration constructed
AppIdle ==
    /\ configs = <<>>
    /\ shown = <<>>
    /\ session = [program |-> "none"]
    /\ demo = [pc |-> "idle"]

NoObj == [cls |-> "none"]

Op(op, model, via, messages, stop, before, raised, generations, reads) ==
    [op |-> op, model |-> model, via |-> via, messages |-> messages, stop |-> stop,
     before |-> before, raised |-> raised, generations |-> generations,
     reads |-> reads]

NoOp == Op("none", "", SelfRef(""), <<>>, <<>>, NoObj, "", <<>>, <<>>)

Init ==
    /\ objs = <<>>
    /\ ctor = <<>>
    /\ out = <<>>
    /\ order = <<>>
    /\ returned = {}
    /\ used = {}
    /\ last = NoOp
    /\ thr = <<>>
    /\ AppIdle

\* the result of a call, as the caller sees it, with the positions read
Result(o) == [raised |-> o.raised, generations |-> o.generations, reads |-> o.reads]

Allocate(a, obj, args) ==
    /\ a \notin DOMAIN objs
    /\ objs' = (a :> obj) @@ objs
    /\ ctor' = (a :> args) @@ ctor
    /\ out' = (a :> <<>>) @@ out
    /\ last' = Op("construct", a, SelfRef(a), <<>>, <<>>, NoObj, "", <<>>, <<>>)
    /\ UNCHANGED <<order, returned, used, thr, appVars>>

\* m = FakeChatModel(responses=rs) or FakeChatModel(responses=rs, idx=i)
ConstructFake(names) ==
    \E a \in names, rs \in FakeScripts, i \in IdxArgs :
        Allocate(a, FakeChatModel_init(rs, i),
                 [cls |-> "FakeChatModel", responses |-> rs, idx |-> i])

\* m = MockChatModel(rs)
ConstructMock(names) ==
    \E a \in names, rs \in MockScripts :
        Allocate(a, MockChatModel_init(rs),
                 [cls |-> "MockChatModel", responses |-> rs, idx |-> 0])

\* MockChatModel(rs, current_index=i): __init__ passes current_index=0 and
\* **kwargs together, so the call raises TypeError and no instance exists
ConstructMockWithIndex(names) ==
    \E a \in names, rs \in MockScripts, i \in IdxArgs :
        /\ a \notin DOMAIN objs
        /\ last' = Op("construct", a, SelfRef(a), <<>>, <<>>, NoObj, "TypeError",
                      <<>>, <<>>)
        /\ UNCHANGED <<objs, ctor, out, order, returned, used, thr, appVars>>

\* the references the program holds to model a: the model itself and the
\* handles bind_tools returned for it
RefsOf(a) == {SelfRef(a)} \cup {h.ret : h \in {x \in returned : x.model = a}}

\* one call of _generate, made on model a directly or through a handle; the
\* handle calls the object it is bound to, with its keyword arguments added
Generate(histories, stops) ==
    \E a \in DOMAIN ctor, messages \in histories, stop \in stops :
        \E ref \in RefsOf(a) :
            LET o == _generate(objs[ref.target], messages, stop, ref.kwargs) IN
            /\ Len(order) < MaxCalls
            /\ objs' = StoreSelf(objs, ref.target, o.self)
            /\ out' = [out EXCEPT ![a] = Append(@, Result(o))]
            /\ order' = Append(order, a)
            /\ used' = used \cup {ref}
            /\ last' = Op("generate", a, ref, messages, stop, objs[ref.target],
                          o.raised, o.generations, o.reads)
            /\ UNCHANGED <<ctor, returned, thr, appVars>>

\* h = m.bind_tools(tools)
BindTools ==
    \E a \in DOMAIN ctor, tools \in ToolLists :
        LET r == bind_tools(objs, a, tools) IN
        /\ objs' = r.heap
        /\ returned' = returned \cup {[model |-> a, ret |-> r.ret]}
        /\ last' = Op("bind_tools", a, r.ret, <<>>, <<>>, objs[a], "", <<>>, <<>>)
        /\ UNCHANGED <<ctor, out, order, used, thr, appVars>>

(* A program that holds one scripted model, binds tools to it and calls it *)
(* directly and through the handles, with any arguments.                   *)
NewFake == ConstructFake(OneInstance)
NewMock == ConstructMock(OneInstance)
NewMockWithIndex == ConstructMockWithIndex(OneInstance)
Call == Generate(Histories, StopLists)

Next ==
    \/ NewFake
    \/ NewMock
    \/ NewMockWithIndex
    \/ Call
    \/ BindTools

Spec == Init /\ [][Next]_vars

(* A program that holds two scripted models and calls them in any order.   *)
NewFakeOfTwo == ConstructFake(TwoInstances)
NewMockOfTwo == ConstructMock(TwoInstances)
NewMockWithIndexOfTwo == ConstructMockWithIndex(TwoInstances)
CallOfTwo == Generate({<<>>}, {<<>>})

NextTwo ==
    \/ NewFakeOfTwo
    \/ NewMockOfTwo
    \/ NewMockWithIndexOfTwo
    \/ CallOfTwo

SpecTwo == Init /\ [][NextTwo]_vars

(* ------------------------------------------------------------------ *)
(* Threads calling _generate on one instance.  Neither method takes a   *)
(* lock, so the reads and the store of the cursor that one call makes   *)
(* are separate steps, and the steps of the calls interleave.           *)
(* ------------------------------------------------------------------ *)
Threads == {"t1", "t2"}

Shared == "A"

Local(pc, generations, reads, j, raised) ==
    [pc |-> pc, generations |-> generations, reads |-> reads, j |-> j,
     raised |-> raised]

\* the model is constructed, with the cursor at its default, before the
\* threads start
InitThreads ==
    /\ \/ \E rs \in FakeScripts :
              /\ ctor = (Shared :> [cls |-> "FakeChatModel", responses |-> rs,
                                    idx |-> 0])
              /\ objs = (Shared :> FakeChatModel_init(rs, 0))
       \/ \E rs \in MockScripts :
              /\ ctor = (Shared :> [cls |-> "MockChatModel", responses |-> rs,
                                    idx |-> 0])
              /\ objs = (Shared :> MockChatModel_init(rs))
    /\ out = (Shared :> <<>>)
    /\ order = <<>>
    /\ returned = {}
    /\ used = {}
    /\ last = NoOp
    /\ thr = [t \in Threads |-> Local("start", <<>>, <<>>, 0, "")]
    /\ AppIdle

\* a call ends: its result goes to the caller
Complete(t, local) ==
    /\ thr' = [thr EXCEPT ![t] = [local EXCEPT !.pc = "done"]]
    /\ out' = [out EXCEPT ![Shared] =
                  Append(@, [raised |-> local.raised,
                             generations |-> local.generations,
                             reads |-> local.reads])]
    /\ order' = Append(order, Shared)

\* MockChatModel: if self.current_index < len(self.responses), else the
\* fallback text
CheckIndex(t) ==
    /\ thr[t].pc = "start"
    /\ objs[Shared].cls = "MockChatModel"
    /\ IF objs[Shared].current_index < Len(objs[Shared].responses)
       THEN thr' = [thr EXCEPT ![t].pc = "read"]
       ELSE thr' = [thr EXCEPT ![t] =
                       Local("return", <<AIMessage(FallbackText)>>, <<>>, 0, "")]
    /\ UNCHANGED <<objs, ctor, out, order, returned, used, last, appVars>>

\* self.responses[self.idx] / self.responses[self.current_index]: the cursor
\* is read and the list subscripted; IndexError ends the call
ReadResponse(t) ==
    /\ \/ thr[t].pc = "start" /\ objs[Shared].cls = "FakeChatModel"
       \/ thr[t].pc = "read"
    /\ LET self == objs[Shared]
           c == Cursor(self)
       IN  IF InRange(self.responses, c)
           THEN /\ thr' = [thr EXCEPT ![t] =
                              Local("load",
                                    <<IF self.cls = "FakeChatModel"
                                      THEN GetItem(self.responses, c)
                                      ELSE AIMessage(GetItem(self.responses, c))>>,
                                    <<c>>, 0, "")]
                /\ UNCHANGED <<out, order, appVars>>
           ELSE Complete(t, Local("done", <<>>, <<>>, 0, "IndexError"))
    /\ UNCHANGED <<objs, ctor, returned, used, last, appVars>>

\* the read half of self.idx += 1
LoadCursor(t) ==
    /\ thr[t].pc = "load"
    /\ thr' = [thr EXCEPT ![t].pc = "store", ![t].j = Cursor(objs[Shared])]
    /\ UNCHANGED <<objs, ctor, out, order, returned, used, last, appVars>>

\* the write half of self.idx += 1
StoreCursor(t) ==
    /\ thr[t].pc = "store"
    /\ objs' = StoreSelf(objs, Shared, WithCursor(objs[Shared], thr[t].j + 1))
    /\ thr' = [thr EXCEPT ![t].pc = "return"]
    /\ UNCHANGED <<ctor, out, order, returned, used, last, appVars>>

\* return ChatResult(generations=[generation])
ReturnResult(t) ==
    /\ thr[t].pc = "return"
    /\ Complete(t, thr[t])
    /\ UNCHANGED <<objs, ctor, returned, used, last, appVars>>

NextThreads ==
    \E t \in Threads :
        \/ CheckIndex(t)
        \/ ReadResponse(t)
        \/ LoadCursor(t)
        \/ StoreCursor(t)
        \/ ReturnResult(t)

SpecThreads == InitThreads /\ [][NextThreads]_vars

(* ------------------------------------------------------------------ *)
(* fitness_ai/config.py: the FitnessAIConfig dataclass.  A temperature  *)
(* is held in tenths, so 1 is the float 0.1 and 10 is 1.0.              *)
(* ------------------------------------------------------------------ *)
None == "<None>"

\* the text Python gives for a float and for a bool inside an f-string
FloatStr == (-1 :> "-0.1") @@ (0 :> "0.0") @@ (1 :> "0.1") @@ (10 :> "1.0")
            @@ (11 :> "1.1")
BoolStr == [b \in BOOLEAN |-> IF b THEN "True" ELSE "False"]

\* float(), int(), str.upper() and str.lower() on the strings of the
\* environments below
ParseFloat == [t \in {FloatStr[x] : x \in DOMAIN FloatStr} |->
                  CHOOSE x \in DOMAIN FloatStr : FloatStr[x] = t]
ParseInt == ("0" :> 0) @@ ("1" :> 1) @@ ("1000" :> 1000)
Upper == ("INFO" :> "INFO") @@ ("debug" :> "DEBUG") @@ ("verbose" :> "VERBOSE")
Lower == ("true" :> "true") @@ ("false" :> "false") @@ ("TRUE" :> "true")
         @@ ("quit" :> "quit") @@ ("EXIT" :> "exit") @@ ("Bye" :> "bye")
         @@ ("q" :> "q") @@ ("" :> "") @@ ("hello" :> "hello")
Strip == ("quit" :> "quit") @@ (" EXIT " :> "EXIT") @@ ("Bye" :> "Bye")
         @@ ("q" :> "q") @@ ("  " :> "") @@ ("hello" :> "hello")

LogLevels == {"DEBUG", "INFO", "WARNING", "ERROR", "CRITICAL"}

\* the dataclass constructor: the fields are the arguments, with the
\* defaults of the class for the ones not given
FitnessAIConfig(kwargs) ==
    [f \in {"openai_api_key", "openai_model", "openai_temperature",
            "openai_max_tokens", "langchain_tracing_v2", "langchain_endpoint",
            "langchain_api_key", "langchain_project", "debug_mode", "log_level"} |->
        IF f \in DOMAIN kwargs THEN kwargs[f]
        ELSE CASE f = "openai_model" -> "gpt-4o-mini"
               [] f = "openai_temperature" -> 1
               [] f = "openai_max_tokens" -> 1000
               [] f = "langchain_tracing_v2" -> TRUE
               [] f = "langchain_endpoint" -> "https://api.smith.langchain.com"
               [] f = "langchain_api_key" -> None
               [] f = "langchain_project" -> "fitness-ai-orchestration"
               [] f = "debug_mode" -> FALSE
               [] f = "log_level" -> "INFO"]

\* os.getenv(name, default) and os.getenv(name)
getenv(env, name, default) == IF name \in DOMAIN env THEN env[name] ELSE default

\* a string is falsy when it is empty, and so is None
Falsy(v) == v = "" \/ v = None

\* FitnessAIConfig.from_env: the object built, or the ValueError raised
\* when OPENAI_API_KEY is missing or empty
from_env(env) ==
    IF Falsy(getenv(env, "OPENAI_API_KEY", None))
    THEN [raised |-> "ValueError", ret |-> <<>>]
    ELSE [raised |-> "",
          ret |-> <<FitnessAIConfig(
              [openai_api_key |-> getenv(env, "OPENAI_API_KEY", None),
               openai_model |-> getenv(env, "OPENAI_MODEL", "gpt-4o-mini"),
               openai_temperature |->
                   ParseFloat[getenv(env, "OPENAI_TEMPERATURE", "0.1")],
               openai_max_tokens |->
                   ParseInt[getenv(env, "OPENAI_MAX_TOKENS", "1000")],
               langchain_tracing_v2 |->
                   Lower[getenv(env, "LANGCHAIN_TRACING_V2", "true")] = "true",
               langchain_endpoint |->
                   getenv(env, "LANGCHAIN_ENDPOINT", "https://api.smith.langchain.com"),
               langchain_api_key |-> getenv(env, "LANGCHAIN_API_KEY", None),
               langchain_project |->
                   getenv(env, "LANGCHAIN_PROJECT", "fitness-ai-orchestration"),
               debug_mode |-> Lower[getenv(env, "DEBUG_MODE", "false")] = "true",
               log_level |-> Upper[getenv(env, "LOG_LEVEL", "INFO")]])>>]

\* faulty variants of the methods below
\* brings the values into range instead of refusing them
validate_clamping(self) ==
    IF Falsy(self.openai_api_key)
    THEN [self |-> self, raised |-> "ValueError"]
    ELSE [self |-> [self EXCEPT
                       !.openai_temperature = IF @ < 0 THEN 0 ELSE IF @ > 10 THEN 10 ELSE @,
                       !.openai_max_tokens = IF @ < 1 THEN 1 ELSE @,
                       !.log_level = IF @ \in LogLevels THEN @ ELSE "INFO"],
          raised |-> ""]

\* the dictionary of all the fields
to_dict_of_all_fields(self) == self

\* FitnessAIConfig.validate: the checks in the order of the code; the
\* object is only read
validate(self) ==
    [self |-> self,
     raised |->
        IF Falsy(self.openai_api_key) THEN "ValueError"
        ELSE IF self.openai_temperature < 0 \/ self.openai_temperature > 10
             THEN "ValueError"
        ELSE IF self.openai_max_tokens < 1 THEN "ValueError"
        ELSE IF self.log_level \notin LogLevels THEN "ValueError"
        ELSE ""]

\* FitnessAIConfig.to_dict
to_dict(self) ==
    [openai_model |-> self.openai_model,
     openai_temperature |-> self.openai_temperature,
     openai_max_tokens |-> self.openai_max_tokens,
     langchain_tracing_v2 |-> self.langchain_tracing_v2,
     langchain_project |-> self.langchain_project,
     debug_mode |-> self.debug_mode,
     log_level |-> self.log_level]

\* FitnessAIConfig.__repr__: the pieces of the formatted string, in order
FitnessAIConfig_repr(self) ==
    <<"FitnessAIConfig(",
      "model=", self.openai_model, ", ",
      "temperature=", FloatStr[self.openai_temperature], ", ",
      "tracing=", BoolStr[self.langchain_tracing_v2], ", ",
      "project=", self.langchain_project, ")">>

\* the arguments configurations are constructed with, and the environments
\* from_env reads
ApiKeys == {"", "sk-A", "sk-B"}
LangchainKeys == {None, "ls-A"}
ConfigArgs ==
    [openai_api_key : ApiKeys,
     openai_temperature : {-1, 0, 10, 11},
     openai_max_tokens : {0, 1},
     langchain_api_key : LangchainKeys,
     log_level : {"INFO", "CRITICAL", "info"}]
ConfigArgsOfTwo ==
    [openai_api_key : ApiKeys,
     openai_model : {"gpt-4o-mini", "gpt-4o"},
     langchain_api_key : LangchainKeys,
     log_level : {"INFO", "DEBUG"}]
EnvSettings ==
    {[OPENAI_API_KEY |-> "sk-A"], [OPENAI_API_KEY |-> ""],
     [LOG_LEVEL |-> "debug"],
     [OPENAI_API_KEY |-> "sk-A", LOG_LEVEL |-> "debug"],
     [OPENAI_API_KEY |-> "sk-B", LOG_LEVEL |-> "verbose",
      LANGCHAIN_API_KEY |-> "ls-A"],
     [OPENAI_API_KEY |-> "sk-A", OPENAI_TEMPERATURE |-> "1.1",
      LANGCHAIN_TRACING_V2 |-> "TRUE"],
     [OPENAI_API_KEY |-> "sk-B", OPENAI_MAX_TOKENS |-> "0",
      DEBUG_MODE |-> "true"]}

NotShown == [validate |-> <<>>, to_dict |-> <<>>, repr |-> <<>>, from_env |-> ""]

\* FitnessAIConfig(...) at address a
ConstructConfig(names, args) ==
    \E a \in names : \E kwargs \in args :
        /\ a \notin DOMAIN configs
        /\ configs' = configs @@ (a :> FitnessAIConfig(kwargs))
        /\ shown' = shown @@ (a :> NotShown)
        /\ UNCHANGED <<modelVars, demo, session>>

\* a = FitnessAIConfig.from_env() in some environment
ConfigFromEnv(names) ==
    \E a \in names : \E env \in EnvSettings :
        /\ a \notin DOMAIN shown
        /\ LET r == from_env(env) IN
              /\ configs' = IF r.raised = "" THEN configs @@ (a :> r.ret[1])
                            ELSE configs
              /\ shown' = shown @@ (a :> [NotShown EXCEPT !.from_env =
                                             IF r.raised = "" THEN "returned"
                                             ELSE r.raised])
        /\ UNCHANGED <<modelVars, demo, session>>

\* configs[a].validate()
Validate ==
    \E a \in DOMAIN configs :
        /\ shown[a].validate = <<>>
        /\ LET r == validate(configs[a]) IN
              /\ configs' = [configs EXCEPT ![a] = r.self]
              /\ shown' = [shown EXCEPT ![a].validate =
                              <<[before |-> configs[a], raised |-> r.raised]>>]
        /\ UNCHANGED <<modelVars, demo, session>>

\* configs[a].to_dict()
ToDict ==
    \E a \in DOMAIN configs :
        /\ shown[a].to_dict = <<>>
        /\ shown' = [shown EXCEPT ![a].to_dict = <<to_dict(configs[a])>>]
        /\ UNCHANGED <<modelVars, demo, configs,
                       session>>

\* repr(configs[a])
Repr ==
    \E a \in DOMAIN configs :
        /\ shown[a].repr = <<>>
        /\ shown' = [shown EXCEPT ![a].repr = <<FitnessAIConfig_repr(configs[a])>>]
        /\ UNCHANGED <<modelVars, demo, configs,
                       session>>

\* A program that holds one configuration, built from arguments or from
\* the environment, and validates and shows it.
OneConfig == {"config"}
NewConfig == ConstructConfig(OneConfig, ConfigArgs)
NewConfigFromEnv == ConfigFromEnv(OneConfig)
NextConfig ==
    \/ NewConfig
    \/ NewConfigFromEnv
    \/ Validate
    \/ ToDict
    \/ Repr

SpecConfig == Init /\ [][NextConfig]_vars

\* A program that holds two configurations and shows both.
TwoConfigs == {"config", "other"}
NewConfigOfTwo == ConstructConfig(TwoConfigs, ConfigArgsOfTwo)
NextTwoConfigs ==
    \/ NewConfigOfTwo
    \/ ToDict
    \/ Repr

SpecTwoConfigs == Init /\ [][NextTwoConfigs]_vars

(* ------------------------------------------------------------------ *)
(* fitness_ai/core.py.  It works on the one configuration of the        *)
(* package, config.config; ChatOpenAI, create_fitness_agents and        *)
(* compile are calls into libraries, which return or raise.             *)
(* ------------------------------------------------------------------ *)
Workflow == "workflow"

\* where the construction of the system can fail outside this package
FailPoints == {"", "ChatOpenAI", "create_fitness_agents", "compile"}

\* a key of custom_config that is no string: hasattr raises TypeError on it
BadKey == "<1>"

\* the custom_config arguments; <<>> is None, and the empty dictionary
CustomConfigs ==
    {<<>>, [openai_temperature |-> 11], [openai_max_tokens |-> 0],
     [openai_api_key |-> ""], [openai_model |-> "gpt-4o"],
     [no_such_field |-> "x"], (BadKey :> "x")}

\* the body of the try of create_fitness_ai_system: the configuration
\* after it, the exception it ends with ("" when it reaches the return),
\* and the arguments ChatOpenAI was called with
SystemCreation(config, custom_config, fail) ==
    LET v == validate(config)
        overridden ==
            [f \in DOMAIN v.self |->
                IF f \in DOMAIN custom_config THEN custom_config[f] ELSE v.self[f]]
        chat == [model |-> overridden.openai_model,
                 temperature |-> overridden.openai_temperature,
                 max_tokens |-> overridden.openai_max_tokens,
                 api_key |-> overridden.openai_api_key]
    IN  IF v.raised # ""
        THEN [config |-> v.self, raised |-> v.raised, chat |-> <<>>]
        ELSE IF BadKey \in DOMAIN custom_config
        THEN [config |-> v.self, raised |-> "TypeError", chat |-> <<>>]
        ELSE [config |-> overridden,
              raised |-> IF fail = "" THEN "" ELSE "Exception",
              chat |-> <<chat>>]

\* faulty variants of the functions below
\* without the try
create_fitness_ai_system_unguarded(config, custom_config, fail) ==
    LET c == SystemCreation(config, custom_config, fail) IN
    [config |-> c.config,
     ret |-> IF c.raised = "" THEN Workflow ELSE None,
     caught |-> "",
     propagated |-> c.raised,
     chat |-> c.chat]

\* compares the input as typed
interactive_turn_as_typed(fitness_ai, event, streamFails) ==
    IF event.raised = "KeyboardInterrupt"
    THEN [ended |-> TRUE, consulted |-> FALSE, streams |-> 0]
    ELSE IF event.raised # ""
    THEN [ended |-> FALSE, consulted |-> FALSE, streams |-> 0]
    ELSE IF event.text \in {"quit", "exit", "bye", "q"}
    THEN [ended |-> TRUE, consulted |-> FALSE, streams |-> 0]
    ELSE IF Strip[event.text] = ""
    THEN [ended |-> FALSE, consulted |-> FALSE, streams |-> 0]
    ELSE [ended |-> FALSE, consulted |-> TRUE, streams |-> 1]

\* create_fitness_ai_system: the try and its except Exception
create_fitness_ai_system(config, custom_config, fail) ==
    LET c == SystemCreation(config, custom_config, fail) IN
    [config |-> c.config,
     ret |-> IF c.raised = "" THEN Workflow ELSE None,
     caught |-> c.raised,
     propagated |-> "",
     chat |-> c.chat]

\* run_fitness_consultation: the stream calls it makes; what the stream
\* raises is caught inside
run_fitness_consultation(fitness_ai, query, streamFails) ==
    IF Falsy(fitness_ai)
    THEN [streams |-> 0, caught |-> ""]
    ELSE [streams |-> 1, caught |-> IF streamFails THEN "Exception" ELSE ""]

\* one turn of the while loop of run_interactive_consultation; event is
\* what input() does: it returns a text or raises
interactive_turn(fitness_ai, event, streamFails) ==
    IF event.raised = "KeyboardInterrupt"
    THEN [ended |-> TRUE, consulted |-> FALSE, streams |-> 0]
    ELSE IF event.raised # ""
    THEN [ended |-> FALSE, consulted |-> FALSE, streams |-> 0]
    ELSE LET user_input == Strip[event.text] IN
         IF Lower[user_input] \in {"quit", "exit", "bye", "q"}
         THEN [ended |-> TRUE, consulted |-> FALSE, streams |-> 0]
         ELSE IF user_input = ""
         THEN [ended |-> FALSE, consulted |-> FALSE, streams |-> 0]
         ELSE [ended |-> FALSE, consulted |-> TRUE,
               streams |-> run_fitness_consultation(fitness_ai, user_input,
                                                    streamFails).streams]

\* what input() does
InputEvents ==
    {[raised |-> "", text |-> t] : t \in DOMAIN Strip}
    \cup {[raised |-> e, text |-> ""] : e \in {"KeyboardInterrupt", "EOFError"}}

\* the scenarios of run_demo_scenarios
DemoScenarios == <<"Weight Loss Consultation", "Muscle Building Plan",
                   "Fitness Metrics Calculation">>

\* the package imported: config = FitnessAIConfig.from_env() and
\* config.validate() have both returned
InitCore ==
    /\ objs = <<>>
    /\ ctor = <<>>
    /\ out = <<>>
    /\ order = <<>>
    /\ returned = {}
    /\ used = {}
    /\ last = NoOp
    /\ thr = <<>>
    /\ \E env \in EnvSettings :
          /\ from_env(env).raised = ""
          /\ validate(from_env(env).ret[1]).raised = ""
          /\ configs = ("config" :> from_env(env).ret[1])
    /\ shown = ("config" :> NotShown)
    /\ session = [program |-> "none", pc |-> "idle", fitness_ai |-> None,
                  created |-> <<>>, log |-> <<>>, inputs |-> 0, streams |-> 0,
                  scenario |-> 0, creates |-> 0, propagated |-> ""]
    /\ demo = [pc |-> "idle"]

\* a function of core.py starts by creating the system
Begin(program, custom_config, fail, pcAfter) ==
    LET c == create_fitness_ai_system(configs["config"], custom_config, fail) IN
       /\ configs' = [configs EXCEPT !["config"] = c.config]
       /\ session' = [session EXCEPT
               !.program = program,
               !.fitness_ai = c.ret,
               !.created = <<[ret |-> c.ret, caught |-> c.caught,
                              propagated |-> c.propagated, chat |-> c.chat,
                              custom_config |-> custom_config]>>,
               !.propagated = c.propagated,
               !.creates = IF program = "create" THEN @ + 1 ELSE @,
               !.pc = IF c.propagated # "" THEN "raised"
                      ELSE IF pcAfter = "idle" THEN "idle"
                      ELSE IF Falsy(c.ret) THEN "returned"
                      ELSE pcAfter]
       /\ UNCHANGED <<modelVars, demo, shown>>

\* create_fitness_ai_system(custom_config), called by a program that
\* goes on to call the functions below
CreateSystem ==
    \E custom_config \in CustomConfigs : \E fail \in FailPoints :
        /\ session.pc = "idle"
        /\ session.creates < MaxCreates
        /\ Begin("create", custom_config, fail, "idle")

\* run_interactive_consultation() up to its loop
RunInteractive ==
    \E fail \in FailPoints :
        /\ session.pc = "idle"
        /\ Begin("interactive", <<>>, fail, "loop")

\* one turn of the loop
InteractiveTurn ==
    \E event \in InputEvents : \E streamFails \in BOOLEAN :
        /\ session.pc = "loop"
        /\ session.inputs < MaxInputs
        /\ LET t == interactive_turn(session.fitness_ai, event, streamFails) IN
              session' = [session EXCEPT
                  !.inputs = @ + 1,
                  !.streams = @ + t.streams,
                  !.log = Append(@, [event |-> event, consulted |-> t.consulted]),
                  !.pc = IF t.ended THEN "returned" ELSE "loop"]
        /\ UNCHANGED <<modelVars, demo, configs,
                       shown>>

\* run_demo_scenarios() up to its loop
RunDemoScenarios ==
    \E fail \in FailPoints :
        /\ session.pc = "idle"
        /\ Begin("demo", <<>>, fail, "scenarios")

\* one scenario: the consultation, and the input() that waits before the
\* next scenario; what that input() raises leaves the function
DemoScenario ==
    \E event \in InputEvents : \E streamFails \in BOOLEAN :
        /\ session.pc = "scenarios"
        /\ LET i == session.scenario + 1
               r == run_fitness_consultation(session.fitness_ai, DemoScenarios[i],
                                             streamFails)
               waits == i < Len(DemoScenarios)
           IN  session' = [session EXCEPT
                  !.scenario = i,
                  !.streams = @ + r.streams,
                  !.inputs = IF waits THEN @ + 1 ELSE @,
                  !.propagated = IF waits THEN event.raised ELSE "",
                  !.pc = IF waits /\ event.raised # "" THEN "raised"
                         ELSE IF waits THEN "scenarios"
                         ELSE "returned"]
        /\ UNCHANGED <<modelVars, demo, configs,
                       shown>>

\* run_fitness_consultation(fitness_ai, query), called with None or with
\* a workflow
RunConsultation ==
    \E fitness_ai \in {None, Workflow} : \E streamFails \in BOOLEAN :
        /\ session.pc = "idle"
        /\ session' = [session EXCEPT
               !.program = "consultation",
               !.fitness_ai = fitness_ai,
               !.streams = @ + run_fitness_consultation(fitness_ai, "hello",
                                                        streamFails).streams,
               !.pc = "returned"]
        /\ UNCHANGED <<modelVars, demo, configs,
                       shown>>

NextCore ==
    \/ CreateSystem
    \/ RunInteractive
    \/ InteractiveTurn
    \/ RunDemoScenarios
    \/ DemoScenario
    \/ RunConsultation

SpecCore == InitCore /\ [][NextCore]_vars

(* ------------------------------------------------------------------ *)
(* The demo programs of examples/.  Each builds its models, gives one   *)
(* to each agent, compiles the supervisor workflow and invokes it once  *)
(* per scenario inside a try.  The workflow itself is the framework's:  *)
(* the supervisor agent calls its model; a response carrying a          *)
(* transfer tool call hands over to the agent named, a response         *)
(* carrying another tool call runs the tool and the same agent calls    *)
(* its model again, a response with no tool call ends the agent's turn: *)
(* a specialist's turn goes back to the supervisor, the supervisor's    *)
(* ends the invocation with that response as the last message.          *)
(* ------------------------------------------------------------------ *)

\* AIMessage(content=c, tool_calls=[...]): the names of the tools called
AIMessageWith(c, tool_calls) ==
    [type |-> "ai", content |-> c, tool_calls |-> tool_calls]

\* message.tool_calls, which is empty when none were given
tool_calls_of(m) == IF "tool_calls" \in DOMAIN m THEN m.tool_calls ELSE <<>>

\* faulty variant of the supervisor's script of simple_demo.py: the same
\* texts, with no tool calls
supervisor_messages_without_handoffs ==
    <<AIMessageWith("I'll delegate this to the research expert to find the information.", <<>>),
      AIMessageWith("Now I'll have the math expert calculate the total.", <<>>),
      AIMessageWith("The combined headcount of the FAANG companies in 2024 is 1,977,586 employees.", <<>>)>>

\* simple_demo.py
supervisor_messages ==
    <<AIMessageWith("I'll delegate this to the research expert to find the information.",
                    <<"transfer_to_research_expert">>),
      AIMessageWith("Now I'll have the math expert calculate the total.",
                    <<"transfer_to_math_expert">>),
      AIMessageWith("The combined headcount of the FAANG companies in 2024 is 1,977,586 employees.", <<>>)>>

research_agent_messages ==
    <<AIMessageWith("I'll search for the FAANG company headcounts.", <<"web_search">>),
      AIMessageWith("I found the headcount data for all FAANG companies.", <<>>)>>

math_agent_messages ==
    <<AIMessageWith("I'll calculate the total headcount step by step.", <<"add">>),
      AIMessageWith("Let me continue adding the remaining companies.", <<"add">>),
      AIMessageWith("Almost done, adding the last companies.", <<"add">>),
      AIMessageWith("The total combined headcount is 1,977,586 employees.", <<>>)>>

simple_demo ==
    [name |-> "simple_demo", cls |-> "FakeChatModel",
     responses |-> ("supervisor_model" :> supervisor_messages)
                   @@ ("research_model" :> research_agent_messages)
                   @@ ("math_model" :> math_agent_messages),
     agents |-> ("supervisor" :> "supervisor_model")
                @@ ("research_expert" :> "research_model")
                @@ ("math_expert" :> "math_model"),
     scenarios |-> <<"FAANG headcount">>]

\* demo_supervisor.py
math_responses ==
    <<"I'll help you with the math calculation.",
      "Let me add these numbers for you.",
      "The calculation is complete.">>

research_responses ==
    <<"I'll search for that information.",
      "Let me find the latest data on that topic.",
      "Here's what I found from my search.">>

supervisor_responses ==
    <<"I'll delegate this task to the appropriate expert.",
      "Let me route this to the right agent.",
      "Task completed successfully.">>

demo_supervisor ==
    [name |-> "demo_supervisor", cls |-> "MockChatModel",
     responses |-> ("supervisor_model" :> supervisor_responses)
                   @@ ("research_model" :> research_responses)
                   @@ ("math_model" :> math_responses),
     agents |-> ("supervisor" :> "supervisor_model")
                @@ ("research_expert" :> "research_model")
                @@ ("math_expert" :> "math_model"),
     scenarios |-> <<"Math Problem", "Research Query">>]

\* real_world_example.py without an API key: one model for every agent
real_world_example ==
    [name |-> "real_world_example", cls |-> "FakeChatModel",
     responses |-> ("model" :>
                       <<AIMessageWith("I'll help you with that task.", <<>>),
                         AIMessageWith("Let me delegate this to the appropriate expert.", <<>>),
                         AIMessageWith("Task completed successfully.", <<>>)>>),
     agents |-> ("supervisor" :> "model") @@ ("math_expert" :> "model")
                @@ ("research_expert" :> "model") @@ ("analysis_expert" :> "model"),
     scenarios |-> <<"Math Calculation", "Information Research", "Data Analysis">>]

\* fitness_ai_orchestration.py without an API key
fitness_ai_orchestration ==
    [name |-> "fitness_ai_orchestration", cls |-> "FakeChatModel",
     responses |->
        ("supervisor_model" :>
            <<AIMessageWith("I'll coordinate your fitness consultation with our specialists.", <<>>),
              AIMessageWith("Let me connect you with the right expert for your needs.", <<>>),
              AIMessageWith("Your comprehensive fitness plan is ready.", <<>>)>>)
        @@ ("workout_model" :>
            <<AIMessageWith("I'll create a personalized workout plan for you.", <<>>),
              AIMessageWith("Let me analyze your fitness metrics and suggest modifications.", <<>>),
              AIMessageWith("Here's your customized exercise program.", <<>>)>>)
        @@ ("nutrition_model" :>
            <<AIMessageWith("I'll design a nutrition plan tailored to your goals.", <<>>),
              AIMessageWith("Let me calculate your specific nutritional needs.", <<>>),
              AIMessageWith("Here are my pre and post-workout nutrition recommendations.", <<>>)>>),
     agents |-> ("supervisor" :> "supervisor_model")
                @@ ("workout_specialist" :> "workout_model")
                @@ ("nutritionist" :> "nutrition_model"),
     scenarios |-> <<"Scenario 1", "Scenario 2", "Scenario 3", "Scenario 4",
                     "Scenario 5">>]

\* fitness_ai_simple_demo.py
fitness_ai_simple_demo ==
    [name |-> "fitness_ai_simple_demo", cls |-> "FakeChatModel",
     responses |->
        ("supervisor_model" :>
            <<AIMessageWith("I'll coordinate your fitness consultation.", <<>>),
              AIMessageWith("Let me connect you with our specialists.", <<>>),
              AIMessageWith("I'll ensure you get comprehensive guidance.", <<>>),
              AIMessageWith("Your complete fitness plan is ready.", <<>>),
              AIMessageWith("I've coordinated both workout and nutrition plans.", <<>>)>>)
        @@ ("workout_model" :>
            <<AIMessageWith("I'll create your workout plan.", <<>>),
              AIMessageWith("Let me design your exercise routine.", <<>>),
              AIMessageWith("Here's your personalized workout.", <<>>),
              AIMessageWith("I'll modify exercises for your needs.", <<>>),
              AIMessageWith("Your training plan is ready.", <<>>)>>)
        @@ ("nutrition_model" :>
            <<AIMessageWith("I'll design your nutrition plan.", <<>>),
              AIMessageWith("Let me calculate your dietary needs.", <<>>),
              AIMessageWith("Here's your meal plan.", <<>>),
              AIMessageWith("I'll optimize your nutrition timing.", <<>>),
              AIMessageWith("Your diet plan is complete.", <<>>)>>),
     agents |-> ("supervisor" :> "supervisor_model")
                @@ ("workout_specialist" :> "workout_model")
                @@ ("nutritionist" :> "nutrition_model"),
     scenarios |-> <<"TEST 1", "TEST 2", "TEST 3">>]

\* fitness_ai_basic_demo.py
fitness_ai_basic_demo ==
    [name |-> "fitness_ai_basic_demo", cls |-> "FakeChatModel",
     responses |->
        ("supervisor_model" :>
            <<AIMessageWith("I'll coordinate your fitness consultation.", <<>>),
              AIMessageWith("Let me connect you with our specialists.", <<>>),
              AIMessageWith("Your complete fitness plan is ready.", <<>>)>>)
        @@ ("workout_model" :>
            <<AIMessageWith("I'll create your workout plan.", <<>>),
              AIMessageWith("Let me design your exercise routine.", <<>>),
              AIMessageWith("Here's your personalized workout.", <<>>)>>)
        @@ ("nutrition_model" :>
            <<AIMessageWith("I'll design your nutrition plan.", <<>>),
              AIMessageWith("Let me calculate your dietary needs.", <<>>),
              AIMessageWith("Here's your meal plan.", <<>>)>>),
     agents |-> ("supervisor" :> "supervisor_model")
                @@ ("workout_specialist" :> "workout_model")
                @@ ("nutritionist" :> "nutrition_model"),
     scenarios |-> <<"SCENARIO 1", "SCENARIO 2", "SCENARIO 3">>]

\* the demos that run on scripted models, and the two that run on
\* ChatOpenAI when OPENAI_API_KEY is set
ScriptedDemos ==
    {simple_demo, demo_supervisor, real_world_example, fitness_ai_orchestration,
     fitness_ai_simple_demo, fitness_ai_basic_demo}
OpenAIDemos == {real_world_example, fitness_ai_orchestration}

\* the agent a transfer tool hands over to
HandoffTarget ==
    ("transfer_to_research_expert" :> "research_expert")
    @@ ("transfer_to_math_expert" :> "math_expert")
    @@ ("transfer_to_analysis_expert" :> "analysis_expert")
    @@ ("transfer_to_workout_specialist" :> "workout_specialist")
    @@ ("transfer_to_nutritionist" :> "nutritionist")

\* the agent that acts after agent has received the message m from its
\* model; "" when the invocation is over
NextAgent(agent, m) ==
    LET calls == tool_calls_of(m) IN
    IF calls = <<>>
    THEN IF agent = "supervisor" THEN "" ELSE "supervisor"
    ELSE IF agent = "supervisor" /\ calls[1] \in DOMAIN HandoffTarget
    THEN HandoffTarget[calls[1]]
    ELSE agent

\* the record of one invocation: the agents whose model was called, in
\* order, the exception that ended it, and the last message of its result
Run(calls, raised, final) == [calls |-> calls, raised |-> raised, final |-> final]

\* the program starts: the models are constructed and given to the agents
SetUpDemo ==
    \E d \in ScriptedDemos :
        /\ demo.pc = "idle"
        /\ objs = <<>>
        /\ objs' = [a \in DOMAIN d.responses |->
                       IF d.cls = "FakeChatModel"
                       THEN FakeChatModel_init(d.responses[a], 0)
                       ELSE MockChatModel_init(d.responses[a])]
        /\ ctor' = [a \in DOMAIN d.responses |->
                       [cls |-> d.cls, responses |-> d.responses[a], idx |-> 0]]
        /\ out' = [a \in DOMAIN d.responses |-> <<>>]
        /\ demo' = [pc |-> "ready", name |-> d.name, mode |-> "scripted",
                    agents |-> d.agents, scenarios |-> d.scenarios,
                    active |-> "", runs |-> <<>>, printed |-> <<>>]
        /\ UNCHANGED <<order, returned, used, last, thr, configs, shown, session>>

\* the program starts with OPENAI_API_KEY set: one ChatOpenAI for all
SetUpOpenAIDemo ==
    \E d \in OpenAIDemos :
        /\ demo.pc = "idle"
        /\ demo' = [pc |-> "ready", name |-> d.name, mode |-> "openai",
                    agents |-> [g \in DOMAIN d.agents |-> "model"],
                    scenarios |-> d.scenarios,
                    active |-> "", runs |-> <<>>, printed |-> <<>>]
        /\ UNCHANGED <<modelVars, configs, shown, session>>

\* app.invoke(...) of the next scenario begins, with the supervisor
InvokeScenario ==
    /\ demo.pc = "ready"
    /\ demo.mode = "scripted"
    /\ Len(demo.runs) < Len(demo.scenarios)
    /\ demo' = [demo EXCEPT !.pc = "running", !.active = "supervisor",
                            !.runs = Append(@, Run(<<>>, "", <<>>))]
    /\ UNCHANGED <<modelVars, configs, shown, session>>

\* the active agent calls its model and acts on the response
AgentStep ==
    /\ demo.pc = "running"
    /\ LET a == demo.agents[demo.active]
           o == _generate(objs[a], <<>>, <<>>, NoKwargs)
           i == Len(demo.runs)
           run == demo.runs[i]
           calls == Append(run.calls, demo.active)
       IN  /\ objs' = StoreSelf(objs, a, o.self)
           /\ out' = [out EXCEPT ![a] = Append(@, Result(o))]
           /\ order' = Append(order, a)
           /\ IF o.raised # ""
              THEN demo' = [demo EXCEPT !.pc = "ended", !.active = "",
                                        !.runs[i] = Run(calls, o.raised, <<>>)]
              ELSE LET m == o.generations[1]
                       next == NextAgent(demo.active, m)
                   IN  demo' = [demo EXCEPT
                           !.pc = IF next = "" THEN "ended" ELSE "running",
                           !.active = next,
                           !.runs[i] = Run(calls, "",
                                           IF next = "" THEN <<m>> ELSE <<>>)]
    /\ UNCHANGED <<ctor, returned, used, last, thr, configs, shown, session>>

\* app.invoke(...) on ChatOpenAI: it returns a result or raises
InvokeOpenAI ==
    \E raised \in {"", "Exception"} :
        /\ demo.pc = "ready"
        /\ demo.mode = "openai"
        /\ Len(demo.runs) < Len(demo.scenarios)
        /\ demo' = [demo EXCEPT
               !.pc = "ended",
               !.runs = Append(@, Run(<<>>, raised,
                                      IF raised = "" THEN <<AIMessageWith("...", <<>>)>>
                                      ELSE <<>>))]
        /\ UNCHANGED <<modelVars, configs, shown, session>>

\* faulty variant of EndScenario: no try inside the loop, so that the
\* error of a scenario leaves the loop
EndScenario_uncaught ==
    /\ demo.pc = "ended"
    /\ LET run == demo.runs[Len(demo.runs)] IN
          demo' = [demo EXCEPT
              !.printed = Append(@, IF run.raised = "" THEN "result" ELSE "error"),
              !.pc = IF run.raised # "" THEN "done"
                     ELSE IF Len(demo.runs) = Len(demo.scenarios) THEN "done"
                     ELSE "ready"]
    /\ UNCHANGED <<modelVars, configs, shown, session>>

\* the rest of the try of the scenario, or its except: the result or the
\* error is printed and the loop goes on
EndScenario ==
    /\ demo.pc = "ended"
    /\ LET run == demo.runs[Len(demo.runs)] IN
          demo' = [demo EXCEPT
              !.printed = Append(@, IF run.raised = "" THEN "result" ELSE "error"),
              !.pc = IF Len(demo.runs) = Len(demo.scenarios) THEN "done"
                     ELSE "ready"]
    /\ UNCHANGED <<modelVars, configs, shown, session>>

NextDemos ==
    \/ SetUpDemo
    \/ SetUpOpenAIDemo
    \/ InvokeScenario
    \/ AgentStep
    \/ InvokeOpenAI
    \/ EndScenario

SpecDemos == Init /\ [][NextDemos]_vars

(* ------------------------------------------------------------------ *)
(* The scenario loops together: a run of one of the example demos, or  *)
(* of run_demo_scenarios of fitness_ai/core.py.  A started program     *)
(* goes on to its next statement, and a call it waits for (an          *)
(* invocation, an input()) returns or raises.                          *)
(* ------------------------------------------------------------------ *)
NextScenarioLoops ==
    \/ session.program = "none" /\ SetUpDemo
    \/ session.program = "none" /\ SetUpOpenAIDemo
    \/ InvokeScenario
    \/ AgentStep
    \/ InvokeOpenAI
    \/ EndScenario
    \/ demo.pc = "idle" /\ RunDemoScenarios
    \/ DemoScenario

SpecScenarioLoops ==
    InitCore /\ [][NextScenarioLoops]_vars /\ WF_vars(NextScenarioLoops)

(* ------------------------------------------------------------------ *)
(* Properties                                                          *)
(* ------------------------------------------------------------------ *)

Models == DOMAIN ctor

\* the length N of the script model a was constructed with
N(a) == Len(ctor[a].responses)

\* the message that carries the k-th configured response of model a
Configured(a, k) ==
    IF ctor[a].cls = "FakeChatModel"
    THEN ctor[a].responses[k]
    ELSE AIMessage(ctor[a].responses[k])

\* the call returned one generation, carrying message m
ReturnedOne(r, m) == r.raised = "" /\ r.generations = <<m>>

\* the first N calls on model a read the N positions of its script in order
ConsumedAll(a) ==
    /\ Len(out[a]) >= N(a)
    /\ \A k \in 1..N(a) : out[a][k].reads = <<k - 1>>

\* what a call made with no response left gives
Exhausted(cls) ==
    IF cls = "FakeChatModel"
    THEN [raised |-> "IndexError", generations |-> <<>>, reads |-> <<>>]
    ELSE [raised |-> "", generations |-> <<AIMessage(FallbackText)>>, reads |-> <<>>]

\* C1: on a model constructed with a script of length N (cursor left at its
\* default), the k-th call, k <= N, returns exactly one generation carrying
\* the k-th configured response and reads position k-1 only, whatever
\* history, stop list and keyword arguments each call was given.
C1_ReplayInOrder ==
    \A a \in Models :
        ctor[a].idx = 0 =>
            \A k \in 1..Len(out[a]) :
                k <= N(a) =>
                    /\ ReturnedOne(out[a][k], Configured(a, k))
                    /\ out[a][k].reads = <<k - 1>>

\* a script of three responses was replayed in full, the last call made
\* through a bind_tools handle with a history and a stop list
C1_Witness ==
    \E a \in Models :
        /\ ctor[a].idx = 0
        /\ N(a) = 3
        /\ Len(out[a]) = 3
        /\ last.op = "generate"
        /\ last.messages = <<"H1">>
        /\ last.stop = <<"STOP">>
        /\ last.via.kwargs # NoKwargs

\* C2: once N calls have consumed all N configured responses, the next call
\* gives the exhausted outcome and nothing else: IndexError and no generation
\* in FakeChatModel, one generation carrying the fallback text in
\* MockChatModel; it reads no position of the script.
C2_ExhaustedAfterN ==
    \A a \in Models :
        (ConsumedAll(a) /\ Len(out[a]) > N(a)) =>
            out[a][N(a) + 1] = Exhausted(ctor[a].cls)

\* a MockChatModel with two responses has been called three times
C2_Witness ==
    \E a \in Models :
        /\ ctor[a].cls = "MockChatModel"
        /\ N(a) = 2
        /\ ConsumedAll(a)
        /\ Len(out[a]) = 3

\* a model constructed with [R0, R1, R2] has been called four times
ThreeThenOne(a) ==
    /\ ctor[a].idx = 0
    /\ N(a) = 3
    /\ \A k \in 1..3 : Configured(a, k) = AIMessage(Texts[k])
    /\ Len(out[a]) = 4

\* C3 as stated: with [R0, R1, R2] the calls return R0, R1, R2 and the
\* fourth call raises, in FakeChatModel and in MockChatModel.
C3_FourthCallRaises ==
    \A a \in Models :
        ThreeThenOne(a) =>
            /\ \A k \in 1..3 : ReturnedOne(out[a][k], AIMessage(Texts[k]))
            /\ out[a][4].raised # ""

\* C3 amended: with [R0, R1, R2] the calls return R0, R1, R2; the fourth
\* call raises IndexError in FakeChatModel, and in MockChatModel it raises
\* nothing and returns one generation carrying the fallback text.
C3_FourthCallExhausted ==
    \A a \in Models :
        ThreeThenOne(a) =>
            /\ \A k \in 1..3 : ReturnedOne(out[a][k], AIMessage(Texts[k]))
            /\ ctor[a].cls = "FakeChatModel" =>
                   (out[a][4].raised = "IndexError" /\ out[a][4].generations = <<>>)
            /\ ctor[a].cls = "MockChatModel" =>
                   ReturnedOne(out[a][4], AIMessage(FallbackText))

\* a MockChatModel constructed with [R0, R1, R2] has been called four times
C3_Witness ==
    \E a \in Models : ThreeThenOne(a) /\ ctor[a].cls = "MockChatModel"

\* the cursor of the object the last call was made on
CursorAfterLast == Cursor(objs[last.via.target])

\* C4 as stated: every call, also one made after the script is exhausted,
\* consumes the record at the cursor and advances the cursor by one.
C4_EveryCallAdvances ==
    last.op = "generate" =>
        /\ last.reads = <<Cursor(last.before)>>
        /\ CursorAfterLast = Cursor(last.before) + 1

\* C4 amended: a call made with the cursor inside the script (a valid
\* subscript of the response list) consumes the record at the cursor and
\* advances the cursor by one; a call made after the script is exhausted
\* consumes no record and leaves the cursor where it is; the cursor never
\* decreases.
C4_CallAdvancesInsideScript ==
    /\ last.op = "generate" =>
          LET c == Cursor(last.before)
              n == Len(last.before.responses)
          IN  /\ (-n <= c /\ c < n) =>
                    /\ last.reads = <<c>>
                    /\ last.generations # <<>>
                    /\ CursorAfterLast = c + 1
              /\ (c >= n \/ c < -n) =>
                    /\ last.reads = <<>>
                    /\ CursorAfterLast = c
              /\ CursorAfterLast >= c
    /\ \A a \in Models : Cursor(objs[a]) >= ctor[a].idx

\* the last call was made on a model whose script of two was used up
C4_Witness ==
    /\ last.op = "generate"
    /\ Len(last.before.responses) = 2
    /\ Cursor(last.before) = 2
    /\ last.reads = <<>>

\* the calls on model a that returned a configured response
Successes(a) == Cardinality({k \in 1..Len(out[a]) : out[a][k].reads # <<>>})

\* C5 as stated: the cursor of an instance equals the number of its
\* successful calls, and so is 0 on every newly constructed instance,
\* whatever arguments its constructor was given.
C5_CursorCountsFromZero ==
    /\ \A a \in Models : Cursor(objs[a]) = Successes(a)
    /\ (last.op = "construct" /\ last.raised = "") => Cursor(objs[last.model]) = 0

\* C5 amended: a MockChatModel starts with cursor 0 and a FakeChatModel with
\* the idx its constructor was given, 0 when none was given; after k calls
\* that returned a configured response the cursor is that start plus k,
\* whatever the other instance has done.
C5_CursorCountsFromStart ==
    /\ \A a \in Models :
          /\ ctor[a].cls = "MockChatModel" => Cursor(objs[a]) = Successes(a)
          /\ ctor[a].cls = "FakeChatModel" =>
                 Cursor(objs[a]) = ctor[a].idx + Successes(a)
    /\ (last.op = "construct" /\ last.raised = "") =>
          Cursor(objs[last.model]) =
              IF ctor[last.model].cls = "MockChatModel" THEN 0
              ELSE ctor[last.model].idx

\* B has just been constructed, with no idx given, after two responses of A
\* were consumed
C5_Witness ==
    /\ last.op = "construct"
    /\ last.raised = ""
    /\ last.model = "B"
    /\ "A" \in Models
    /\ ctor["B"].idx = 0
    /\ Cursor(objs["A"]) >= 2
    /\ Successes("A") >= 2

\* the object a constructor call builds
Built(args) ==
    IF args.cls = "FakeChatModel"
    THEN FakeChatModel_init(args.responses, args.idx)
    ELSE MockChatModel_init(args.responses)

\* n calls made on an object that nothing else touches
RECURSIVE Alone(_, _)
Alone(obj, n) ==
    IF n = 0
    THEN [self |-> obj, results |-> <<>>]
    ELSE LET p == Alone(obj, n - 1)
             o == _generate(p.self, <<>>, <<>>, NoKwargs)
         IN  [self |-> o.self, results |-> Append(p.results, Result(o))]

\* model a is where, and has answered what, it would have running alone
AsIfAlone(a) ==
    LET solo == Alone(Built(ctor[a]), Len(out[a]))
    IN  out[a] = solo.results /\ objs[a] = solo.self

\* A seeded [R0, R1] and B seeded [Z], called in the order A, B, A
Interleaved ==
    /\ Models = {"A", "B"}
    /\ ctor["A"].idx = 0 /\ ctor["B"].idx = 0
    /\ N("A") = 2 /\ N("B") = 1
    /\ Configured("A", 1) = AIMessage("R0")
    /\ Configured("A", 2) = AIMessage("R1")
    /\ Configured("B", 1) = AIMessage("Z")
    /\ order = <<"A", "B", "A">>

\* C6: under any interleaving of calls on two instances, each instance has
\* the cursor and the response list, and has returned the results, that it
\* would have had running alone; A seeded [X, Y] and B seeded [Z], called
\* A, B, A, return X, Z, Y.
C6_InstancesIndependent ==
    /\ \A a \in Models : AsIfAlone(a)
    /\ Interleaved =>
          /\ ReturnedOne(out["A"][1], AIMessage("R0"))
          /\ ReturnedOne(out["B"][1], AIMessage("Z"))
          /\ ReturnedOne(out["A"][2], AIMessage("R1"))

C6_Witness == Interleaved

\* C7: a bind_tools call leaves the cursor and the response list of the
\* model as they were, and with bind_tools calls made at any point between
\* the _generate calls the model returns what it returns with none.
C7_BindToolsChangesNothing ==
    /\ last.op = "bind_tools" => objs[last.model] = last.before
    /\ \A a \in Models :
          LET solo == Alone(Built(ctor[a]), Len(out[a]))
          IN  /\ Cursor(objs[a]) = Cursor(solo.self)
              /\ objs[a].responses = ctor[a].responses
              /\ [k \in 1..Len(out[a]) |-> out[a][k].generations]
                     = [k \in 1..Len(out[a]) |-> solo.results[k].generations]

\* tools were bound twice, with two tool collections, to a model called
\* directly and through a handle, three times in all
C7_Witness ==
    /\ last.op = "generate"
    /\ last.via.kwargs # NoKwargs
    /\ Cardinality(returned) >= 2
    /\ SelfRef(last.model) \in used
    /\ Len(out[last.model]) >= 3
    /\ Cursor(objs[last.model]) >= 3

\* C8: a handle bind_tools returned calls the very object it was asked of;
\* a call through the handle or on the model advances the one cursor, and
\* the k-th call of the two together reads the k-th position after the
\* start, so no response comes twice.
C8_HandleSharesCursor ==
    /\ \A h \in returned : h.ret.target = h.model
    /\ last.op = "generate" =>
          Cursor(objs[last.model]) = Cursor(last.before) + Len(last.reads)
    /\ \A a \in Models :
          \A k \in 1..Len(out[a]) :
              out[a][k].reads # <<>> => out[a][k].reads = <<ctor[a].idx + k - 1>>

\* a FakeChatModel with three responses gave them in order over calls made
\* on the model and through a handle
C8_Witness ==
    \E a \in Models :
        /\ ctor[a].cls = "FakeChatModel"
        /\ ctor[a].idx = 0
        /\ N(a) = 3
        /\ Successes(a) = 3
        /\ SelfRef(a) \in used
        /\ \E r \in used : r.target = a /\ r.kwargs # NoKwargs

\* C9: no instance exists whose script is empty: constructing with an empty
\* response sequence fails.
C9_EmptyScriptRejected ==
    \A a \in DOMAIN objs : Len(objs[a].responses) > 0

\* the calls that have ended with a configured response
Served == {t \in DOMAIN thr : thr[t].pc = "done" /\ thr[t].reads # <<>>}

\* no call is under way
Quiet == \A t \in DOMAIN thr : thr[t].pc \in {"start", "done"}

\* C10: with threads calling _generate on one instance, no response record
\* is returned to two calls, none is skipped, and once m calls have
\* completed the cursor is m.
C10_CallsAreAtomic ==
    /\ \A t, u \in Served : t # u => thr[t].reads # thr[u].reads
    /\ (Quiet /\ DOMAIN thr # {}) =>
          /\ Cursor(objs[Shared]) = Cardinality(Served)
          /\ {thr[t].reads[1] : t \in Served} = 0..(Cardinality(Served) - 1)

\* C12: a _generate call changes nothing but the cursor, and a bind_tools
\* call changes nothing: after any calls, returning or raising, every model
\* holds the response sequence it was constructed with.
C12_OnlyTheCursorChanges ==
    /\ \A a \in Models : objs[a].responses = ctor[a].responses
    /\ last.op = "generate" =>
          objs[last.via.target] = WithCursor(last.before, CursorAfterLast)
    /\ last.op = "bind_tools" => objs[last.model].responses = last.before.responses

\* a model with two responses has answered twice, failed or fallen back
\* once, and had tools bound
C12_Witness ==
    \E a \in Models :
        /\ N(a) = 2
        /\ Len(out[a]) = 3
        /\ Successes(a) = 2
        /\ \E h \in returned : h.model = a

\* C13: once a call on a model has given the exhausted outcome, every later
\* call on it gives that same outcome, reads no response, and leaves the
\* object as it was.
C13_ExhaustionAbsorbing ==
    /\ \A a \in Models :
          \A k \in 1..Len(out[a]) :
              out[a][k].reads = <<>> =>
                  \A j \in k..Len(out[a]) : out[a][j] = Exhausted(ctor[a].cls)
    /\ (last.op = "generate" /\ last.reads = <<>>) =>
          objs[last.via.target] = last.before

\* a model with one response was called again twice after giving it
C13_Witness ==
    \E a \in Models :
        /\ N(a) = 1
        /\ ctor[a].idx = 0
        /\ Len(out[a]) = 3
        /\ out[a][1].reads = <<0>>
        /\ out[a][2] = out[a][3]
        /\ last.op = "generate"

\* the secrets of a configuration, and two configurations that differ in
\* nothing but their secrets
Secrets(c) == {c.openai_api_key, c.langchain_api_key} \ {"", None}
SameButKeys(c, d) ==
    [c EXCEPT !.openai_api_key = "", !.langchain_api_key = None]
        = [d EXCEPT !.openai_api_key = "", !.langchain_api_key = None]

\* C14: two configurations that differ only in the two API keys have the
\* same __repr__ and the same to_dict(), and neither output holds a key:
\* no piece of the string is a key, and the dictionary has no entry for a
\* key and no string value that is one.
C14_OutputsHideTheKeys ==
    /\ \A a \in DOMAIN configs : \A b \in DOMAIN configs :
          SameButKeys(configs[a], configs[b]) =>
              /\ (shown[a].repr # <<>> /\ shown[b].repr # <<>>) =>
                    shown[a].repr = shown[b].repr
              /\ (shown[a].to_dict # <<>> /\ shown[b].to_dict # <<>>) =>
                    shown[a].to_dict = shown[b].to_dict
    /\ \A a \in DOMAIN configs :
          /\ shown[a].repr # <<>> =>
                \A i \in 1..Len(shown[a].repr[1]) :
                    shown[a].repr[1][i] \notin Secrets(configs[a])
          /\ shown[a].to_dict # <<>> =>
                LET d == shown[a].to_dict[1] IN
                   /\ DOMAIN d \cap {"openai_api_key", "langchain_api_key"} = {}
                   /\ \A f \in {"openai_model", "langchain_project", "log_level"} :
                         f \in DOMAIN d => d[f] \notin Secrets(configs[a])

\* two configurations with different keys of both kinds, and nothing else
\* different, have both been shown both ways
C14_Witness ==
    /\ DOMAIN configs = TwoConfigs
    /\ SameButKeys(configs["config"], configs["other"])
    /\ configs["config"].openai_api_key = "sk-A"
    /\ configs["other"].openai_api_key = "sk-B"
    /\ configs["config"].langchain_api_key # configs["other"].langchain_api_key
    /\ \A a \in TwoConfigs : shown[a].repr # <<>> /\ shown[a].to_dict # <<>>

\* what the claim lists as the invalid configurations
Invalid(c) ==
    \/ c.openai_api_key = ""
    \/ c.openai_temperature < 0
    \/ c.openai_temperature > 10
    \/ c.openai_max_tokens < 1
    \/ c.log_level \notin {"DEBUG", "INFO", "WARNING", "ERROR", "CRITICAL"}

\* C15: validate raises exactly for the configurations with an empty API
\* key, a temperature below 0 or above 1, max_tokens below 1 or a log level
\* outside the five names, returns for all others, and in both cases
\* leaves every field as it was.
C15_ValidateRejectsExactlyInvalid ==
    \A a \in DOMAIN configs :
        shown[a].validate # <<>> =>
            LET v == shown[a].validate[1] IN
               /\ (v.raised = "ValueError") <=> Invalid(v.before)
               /\ v.raised \in {"", "ValueError"}
               /\ configs[a] = v.before

\* a configuration whose only fault is a temperature just above 1 was
\* refused
C15_Witness ==
    \E a \in DOMAIN configs :
        /\ shown[a].validate # <<>>
        /\ shown[a].validate[1].raised = "ValueError"
        /\ configs[a].openai_temperature = 11
        /\ configs[a].openai_api_key # ""
        /\ configs[a].openai_max_tokens = 1
        /\ configs[a].log_level = "CRITICAL"

\* the inputs the claim names: quit, exit and bye, in some letter case and
\* with or without blanks around them
QuitInputs == {"quit", " EXIT ", "Bye"}

\* C16: in run_interactive_consultation an input of quit, exit or bye, in
\* any letter case and with blanks around it, ends the session at once: no
\* consultation is run for it and it is the last input read.
C16_QuitEndsSession ==
    session.program = "interactive" =>
        \A k \in 1..Len(session.log) :
            (session.log[k].event.raised = "" /\ session.log[k].event.text \in QuitInputs)
                => /\ ~session.log[k].consulted
                   /\ k = Len(session.log)
                   /\ session.pc = "returned"

\* a consultation was run, and then " EXIT " ended the session
C16_Witness ==
    /\ session.program = "interactive"
    /\ Len(session.log) = 2
    /\ session.log[1].consulted
    /\ session.log[2].event.text = " EXIT "
    /\ session.pc = "returned"

\* C17: create_fitness_ai_system returns the workflow or None and lets no
\* exception of its body out; when it returned None,
\* run_interactive_consultation and run_demo_scenarios have returned with
\* no input read and no consultation run, and run_fitness_consultation
\* called with None has made no stream call.
C17_CreationFailureContained ==
    /\ session.created # <<>> =>
          /\ session.created[1].ret \in {Workflow, None}
          /\ session.created[1].ret = None <=> session.created[1].caught # ""
          /\ session.created[1].propagated = ""
    /\ (session.program \in {"interactive", "demo"} /\ session.fitness_ai = None) =>
          /\ session.pc = "returned"
          /\ session.inputs = 0
          /\ session.streams = 0
          /\ session.log = <<>>
          /\ session.scenario = 0
    /\ (session.program = "consultation" /\ session.fitness_ai = None) =>
          session.streams = 0

\* an override made the configuration invalid, and the session started
\* after it ended before its loop, validation having raised
C17_Witness ==
    /\ session.program = "interactive"
    /\ session.creates = 1
    /\ session.fitness_ai = None
    /\ session.created[1].caught = "ValueError"
    /\ session.pc = "returned"

\* C11 as stated: in every demo run on scripted models no two agents are
\* given the same model instance.  real_world_example.py gives its one
\* FakeChatModel to the supervisor and to its three specialists.
C11_NoInstanceShared ==
    (demo.pc # "idle" /\ demo.mode = "scripted") =>
        \A g \in DOMAIN demo.agents : \A h \in DOMAIN demo.agents :
            g # h => demo.agents[g] # demo.agents[h]

\* the agents whose model an invocation called
Invoked(run) == {run.calls[k] : k \in 1..Len(run.calls)}

\* the scenarios of the scripted demo called name that have run to their end
Finished(name) ==
    IF demo.pc # "idle" /\ demo.mode = "scripted" /\ demo.name = name
    THEN 1..Len(demo.printed)
    ELSE {}

\* C18 as stated: in run_demo of demo_supervisor.py the Math Problem
\* scenario gets math_expert invoked and the Research Query scenario gets
\* research_expert invoked.  The supervisor's script holds plain texts, so
\* no response carries a transfer tool call and no specialist ever acts.
C18_ScenariosReachTheirExpert ==
    \A i \in Finished("demo_supervisor") :
        /\ demo.scenarios[i] = "Math Problem" =>
              "math_expert" \in Invoked(demo.runs[i])
        /\ demo.scenarios[i] = "Research Query" =>
              "research_expert" \in Invoked(demo.runs[i])

\* C19: the one invocation of run_simple_demo calls the models in the
\* order supervisor, research, research, supervisor, math four times,
\* supervisor; no call finds a script exhausted; at the end each model has
\* given each of its responses once (cursors 3, 2 and 4) and the last
\* message is the supervisor's third response.
C19_SimpleDemoRun ==
    (demo.pc # "idle" /\ demo.name = "simple_demo") =>
        /\ \A a \in DOMAIN out : \A k \in 1..Len(out[a]) :
              out[a][k].raised = "" /\ out[a][k].reads = <<k - 1>>
        /\ \E n \in 0..9 :
              order = SubSeq(<<"supervisor_model", "research_model", "research_model",
                               "supervisor_model", "math_model", "math_model",
                               "math_model", "math_model", "supervisor_model">>, 1, n)
        /\ 1 \in Finished("simple_demo") =>
              /\ demo.runs[1].calls =
                    <<"supervisor", "research_expert", "research_expert",
                      "supervisor", "math_expert", "math_expert", "math_expert",
                      "math_expert", "supervisor">>
              /\ Len(order) = 9
              /\ demo.runs[1].raised = ""
              /\ demo.printed = <<"result">>
              /\ objs["supervisor_model"].idx = 3
              /\ objs["research_model"].idx = 2
              /\ objs["math_model"].idx = 4
              /\ \A a \in DOMAIN out : Len(out[a]) = N(a)
              /\ demo.runs[1].final =
                    <<AIMessageWith("The combined headcount of the FAANG companies in 2024 is 1,977,586 employees.", <<>>)>>

\* run_simple_demo has run to its end
C19_Witness ==
    /\ demo.pc = "done"
    /\ demo.name = "simple_demo"
    /\ Len(order) = 9

\* C20: in the run of run_fitness_ai_demo on scripted models the cursors
\* are never put back between the invocations: every cursor equals the
\* number of responses its model has given in the whole run; scenarios 1
\* to 3 end with the first, second and third supervisor response, each
\* after one call of the supervisor's model, scenarios 4 and 5 end in the
\* except branch with IndexError, and the specialists' cursors stay 0.
C20_CursorKeptAcrossScenarios ==
    (demo.pc # "idle" /\ demo.mode = "scripted"
        /\ demo.name = "fitness_ai_orchestration") =>
        /\ \A a \in DOMAIN objs : Cursor(objs[a]) = Successes(a)
        /\ objs["workout_model"].idx = 0
        /\ objs["nutrition_model"].idx = 0
        /\ \A i \in Finished("fitness_ai_orchestration") :
              /\ demo.runs[i].calls = <<"supervisor">>
              /\ i <= 3 =>
                    /\ demo.runs[i].raised = ""
                    /\ demo.runs[i].final = <<ctor["supervisor_model"].responses[i]>>
                    /\ demo.printed[i] = "result"
              /\ i > 3 =>
                    /\ demo.runs[i].raised = "IndexError"
                    /\ demo.runs[i].final = <<>>
                    /\ demo.printed[i] = "error"

\* the five scenarios have run
C20_Witness ==
    /\ demo.pc = "done"
    /\ demo.mode = "scripted"
    /\ demo.name = "fitness_ai_orchestration"
    /\ Len(demo.printed) = 5
    /\ objs["supervisor_model"].idx = 3

\* the scenario loop of the example demo has been left
ExampleOver == demo.pc = "done"

\* run_demo_scenarios of core.py has got past the creation of the system
\* and has been left, by its return or by an exception
PackageDemoOver ==
    /\ session.program = "demo"
    /\ session.fitness_ai # None
    /\ session.pc \in {"returned", "raised"}

\* in the example demo every scenario up to the one running has been
\* attempted once, in the order of the list; each finished one has printed
\* its result, or its error when its invocation raised; and the loop is
\* left only after the last scenario
ExampleLoopSound ==
    demo.pc # "idle" =>
        /\ Len(demo.runs) <= Len(demo.scenarios)
        /\ Len(demo.printed) = IF demo.pc \in {"running", "ended"}
                               THEN Len(demo.runs) - 1 ELSE Len(demo.runs)
        /\ \A i \in 1..Len(demo.printed) :
              demo.printed[i] = IF demo.runs[i].raised = "" THEN "result" ELSE "error"
        /\ ExampleOver => Len(demo.printed) = Len(demo.scenarios)

\* C21 as stated: every demo scenario loop, once left, has attempted all
\* its scenarios and reached its completion message.  The loop of
\* run_demo_scenarios of core.py waits on input() between two scenarios,
\* outside any try: what that input() raises leaves the function.
C21_EveryLoopReachesCompletion ==
    /\ ExampleLoopSound
    /\ PackageDemoOver =>
          /\ session.pc = "returned"
          /\ session.scenario = Len(DemoScenarios)

\* the statements the two programs have executed: the set-up, the
\* invocations begun, the model calls made, the scenarios ended
Progress(d, s, o) ==
    (IF d.pc = "idle" THEN 0 ELSE 1 + Len(d.runs) + Len(d.printed) + Len(o))
    + (IF s.program = "demo" THEN 1 + s.scenario ELSE 0)

\* a program that has started and has not been left can take a step
NeverStuck ==
    (\/ demo.pc \notin {"idle", "done"}
     \/ session.program = "demo" /\ session.pc = "scenarios")
        => ENABLED NextScenarioLoops

\* C21 amended: in the scenario loops of the example demos an Exception
\* raised by the invocation of scenario i is caught inside that iteration:
\* each scenario is attempted once in list order, a failed one prints its
\* error and the later ones still run, and the loop ends with the
\* completion message: it is never stuck before it, and every step is one
\* more statement executed, of the finitely many there are.  In
\* run_demo_scenarios of core.py the loop ends too, with all scenarios run
\* when it returns; it is left early exactly by an exception of the
\* input() that waits between two scenarios.
C21_LoopsComplete ==
    /\ [](/\ ExampleLoopSound
          /\ NeverStuck
          /\ PackageDemoOver =>
                /\ session.pc = "returned" <=> session.scenario = Len(DemoScenarios)
                /\ session.pc = "raised" <=>
                      session.propagated \in {"KeyboardInterrupt", "EOFError"}
                /\ session.pc = "raised" => session.created[1].propagated = "")
    /\ [][Progress(demo', session', order') = Progress(demo, session, order) + 1]_vars

\* an example demo has reached its completion message after a scenario
\* that failed and a later one that ran
C21_Witness ==
    /\ ExampleOver
    /\ \E i \in 1..Len(demo.runs) :
          /\ i < Len(demo.runs)
          /\ demo.runs[i].raised # ""
          /\ demo.printed[i] = "error"
          /\ demo.printed[Len(demo.runs)] = "result"

\* C22 as stated: the temperature, max_tokens and API key that
\* create_fitness_ai_system passes to ChatOpenAI satisfy what validate
\* enforces, whatever custom_config is.  The overrides are applied after
\* validate has returned and are not validated.
C22_ChatModelArgsValid ==
    (session.created # <<>> /\ session.created[1].chat # <<>>) =>
        LET chat == session.created[1].chat[1] IN
           /\ 0 <= chat.temperature /\ chat.temperature <= 10
           /\ chat.max_tokens >= 1
           /\ chat.api_key # ""

====
